---- MODULE Spec2Model ----
(***************************************************************************)
(* Legal-AI-Simplifier front end: the document store (store/index.ts), the *)
(* service adapter and its status poller (services/api.ts) and the upload  *)
(* page's file filter (pages/UploadPage).                                  *)
(*                                                                         *)
(* JavaScript runs the handlers on one event loop: a handler runs without  *)
(* interruption up to its next await, so each action below is the code     *)
(* between two awaits (or a whole synchronous handler).                    *)
(***************************************************************************)
EXTENDS Integers, Sequences, FiniteSets, TLC

(* ------------------------------ bounds --------------------------------- *)

\* largest maxAttempts a caller passes to pollDocumentStatus in the model
MaxAttempts == 3
\* most files onDrop is handed at once, and most files selected at once
MaxSelected == 2
\* most documents the store holds in the model
MaxDocs == 2
\* last value of the millisecond clock Date.now() reads in the model
MaxClock == 1

\* most entries qaSessions holds in the model
MaxSessions == 2

\* most calls made through the axios client in the model
MaxCalls == 2

(* ------------------------- optional JS values -------------------------- *)

\* undefined / null, and a present value v
None == <<>>
Some(v) == <<v>>

\* a ?? b with b a definite value
Nullish(a, b) == IF a # None THEN a[1] ELSE b

\* a || b for an optional string a: null, undefined and "" are falsy
OrElse(a, b) == IF a # None /\ a[1] # "" THEN a[1] ELSE b

\* the elements of an array
Elements(seq) == {seq[i] : i \in 1..Len(seq)}

VARIABLES
    store,          \* the zustand state object (store/index.ts 61-70)
    inflight,       \* async store actions suspended at their await
    last,           \* what the most recently resolved store action returned
    now,            \* Date.now()
    pollers,        \* the closures of the pollDocumentStatus calls
    selectedFiles,  \* UploadPage's selectedFiles state
    uploadFilesPc,  \* UploadPage.uploadFiles: where its loop stands
    requested,      \* the files uploadFiles has called uploadDocument for
    offered,        \* the files onDrop has been handed so far
    client,         \* the axios client's calls: requests sent, toasts, outcome
    demo            \* the MockApiService instance: its documents and timers

pageVars == <<selectedFiles, uploadFilesPc, requested, offered>>
vars == <<store, inflight, last, now, pollers, pageVars, client, demo>>

(* ----------------- services/api.ts: pollDocumentStatus ----------------- *)

PollerIds == {"p1", "p2"}
DocIds == {"d1", "d2"}

PollFailedMessage == "Document processing failed"
PollTimeoutMessage == "Timeout waiting for document processing"

\* new Error(message)
Error(message) == [message |-> message, response |-> None]

\* what GET /documents/{id}/status can answer (types/index.ts DocumentStatus)
ErrorMessages == {None, Some(""), Some("OCR engine crashed")}
StatusReplies ==
    {[status |-> s, error_message |-> None] : s \in {"pending", "processing", "completed"}}
    \cup {[status |-> "failed", error_message |-> m] : m \in ErrorMessages}

\* what the awaited getDocumentStatus can throw (an axios error)
NetworkError == [message |-> "Network Error", response |-> None]
StatusThrows == {NetworkError}

IdlePoller ==
    [state |-> "idle", documentId |-> "d1", maxAttempts |-> 0, attempts |-> 0,
     onStatusUpdate |-> FALSE, inFlight |-> 0, timers |-> 0,
     fetched |-> <<>>, notified |-> <<>>, resolved |-> <<>>, rejected |-> <<>>]

\* the first call of poll(): attempts++ and the status request goes out
pollStarted(documentId, onStatusUpdate, maxAttempts) ==
    [IdlePoller EXCEPT !.state = "fetching", !.documentId = documentId,
                       !.maxAttempts = maxAttempts, !.attempts = 1,
                       !.onStatusUpdate = onStatusUpdate, !.inFlight = 1]

\* pollStatus with the bound tested as attempts > maxAttempts
pollStatusLateBound(p, status) ==
    LET q == [p EXCEPT !.inFlight = @ - 1, !.fetched = Append(@, status),
                       !.notified = IF p.onStatusUpdate THEN Append(@, status) ELSE @]
    IN  IF status.status = "completed"
          THEN [q EXCEPT !.state = "resolved", !.resolved = Append(@, status)]
        ELSE IF status.status = "failed"
          THEN [q EXCEPT !.state = "rejected",
                         !.rejected = Append(@, Error(OrElse(status.error_message,
                                                             PollFailedMessage)))]
        ELSE IF q.attempts > q.maxAttempts
          THEN [q EXCEPT !.state = "rejected",
                         !.rejected = Append(@, Error(PollTimeoutMessage))]
        ELSE [q EXCEPT !.state = "scheduled", !.timers = @ + 1]

\* pollStatus with the callback invoked only on the ticks that go on polling
pollStatusQuietExit(p, status) ==
    LET q == [p EXCEPT !.inFlight = @ - 1, !.fetched = Append(@, status)]
    IN  IF status.status = "completed"
          THEN [q EXCEPT !.state = "resolved", !.resolved = Append(@, status)]
        ELSE IF status.status = "failed"
          THEN [q EXCEPT !.state = "rejected",
                         !.rejected = Append(@, Error(OrElse(status.error_message,
                                                             PollFailedMessage)))]
        ELSE IF q.attempts >= q.maxAttempts
          THEN [q EXCEPT !.state = "rejected",
                         !.rejected = Append(@, Error(PollTimeoutMessage))]
        ELSE [q EXCEPT !.state = "scheduled", !.timers = @ + 1,
                       !.notified = IF p.onStatusUpdate THEN Append(@, status) ELSE @]

\* pollStatus with the attempts bound tested before the failed status
pollStatusBoundFirst(p, status) ==
    LET q == [p EXCEPT !.inFlight = @ - 1, !.fetched = Append(@, status),
                       !.notified = IF p.onStatusUpdate THEN Append(@, status) ELSE @]
    IN  IF status.status = "completed"
          THEN [q EXCEPT !.state = "resolved", !.resolved = Append(@, status)]
        ELSE IF q.attempts >= q.maxAttempts
          THEN [q EXCEPT !.state = "rejected",
                         !.rejected = Append(@, Error(PollTimeoutMessage))]
        ELSE IF status.status = "failed"
          THEN [q EXCEPT !.state = "rejected",
                         !.rejected = Append(@, Error(OrElse(status.error_message,
                                                             PollFailedMessage)))]
        ELSE [q EXCEPT !.state = "scheduled", !.timers = @ + 1]

\* pollStatus without the return after resolve(status)
pollStatusNoReturn(p, status) ==
    LET q == [p EXCEPT !.inFlight = @ - 1, !.fetched = Append(@, status),
                       !.notified = IF p.onStatusUpdate THEN Append(@, status) ELSE @]
        r == IF status.status = "completed"
               THEN [q EXCEPT !.state = "resolved", !.resolved = Append(@, status)]
               ELSE q
    IN  IF status.status = "failed"
          THEN [r EXCEPT !.state = "rejected",
                         !.rejected = Append(@, Error(OrElse(status.error_message,
                                                             PollFailedMessage)))]
        ELSE IF r.attempts >= r.maxAttempts
          THEN [r EXCEPT !.rejected = Append(@, Error(PollTimeoutMessage))]
        ELSE [r EXCEPT !.timers = @ + 1]

\* poll() after the awaited status arrived: callback, then the three exits
pollStatus(p, status) ==
    LET q == [p EXCEPT !.inFlight = @ - 1, !.fetched = Append(@, status),
                       !.notified = IF p.onStatusUpdate THEN Append(@, status) ELSE @]
    IN  IF status.status = "completed"
          THEN [q EXCEPT !.state = "resolved", !.resolved = Append(@, status)]
        ELSE IF status.status = "failed"
          THEN [q EXCEPT !.state = "rejected",
                         !.rejected = Append(@, Error(OrElse(status.error_message,
                                                             PollFailedMessage)))]
        ELSE IF q.attempts >= q.maxAttempts
          THEN [q EXCEPT !.state = "rejected",
                         !.rejected = Append(@, Error(PollTimeoutMessage))]
        ELSE [q EXCEPT !.state = "scheduled", !.timers = @ + 1]

\* catch (error) { reject(error) }
pollCatch(p, error) ==
    [p EXCEPT !.state = "rejected", !.inFlight = @ - 1, !.rejected = Append(@, error)]

\* pollAgain for a timer that stays armed, as one set by setInterval
pollAgainInterval(p) ==
    [p EXCEPT !.state = "fetching", !.attempts = @ + 1, !.inFlight = @ + 1]

\* the timer set by setTimeout(poll, interval) fires: attempts++, next request
pollAgain(p) ==
    [p EXCEPT !.state = "fetching", !.timers = @ - 1, !.attempts = @ + 1,
              !.inFlight = @ + 1]

(* ------------- services/api.ts: the client's interceptors -------------- *)

\* an AxiosError: message, the response if one was received (status and the
\* body's message), and whether the request went out
AxiosError(message, response, request) ==
    [message |-> message, response |-> response, request |-> request]

\* the errors axios hands to the response interceptor
HttpErrors ==
    {AxiosError("Request failed", Some([status |-> st, message |-> m]), TRUE) :
        st \in {400, 404, 422, 500, 503, 418}, m \in {None, Some("file is empty")}}
NoResponseError == AxiosError("Network Error", None, TRUE)
SetupError == AxiosError("Invalid URL", None, FALSE)
ClientErrors == HttpErrors \cup {NoResponseError, SetupError}

\* the bodies of 2xx responses
ResponseBodies == {[status |-> "healthy"], [message |-> "Document deleted"]}

\* handleError with the break after case 400 missing
handleErrorFallsThrough(error) ==
    IF error.response # None
      THEN LET status == error.response[1].status
               message == OrElse(error.response[1].message, error.message)
           IN  CASE status = 400 -> <<"Bad Request: " \o message, "Resource not found">>
                 [] status = 404 -> <<"Resource not found">>
                 [] status = 422 -> <<"Validation Error: " \o message>>
                 [] status = 500 -> <<"Server error. Please try again later.">>
                 [] status = 503 -> <<"Service unavailable. Please try again later.">>
                 [] OTHER -> <<"Error: " \o message>>
    ELSE IF error.request
      THEN <<"Network error. Please check your connection.">>
    ELSE <<"An unexpected error occurred.">>

\* handleError(error): the toasts it raises, in order
handleError(error) ==
    IF error.response # None
      THEN LET status == error.response[1].status
               message == OrElse(error.response[1].message, error.message)
           IN  CASE status = 400 -> <<"Bad Request: " \o message>>
                 [] status = 404 -> <<"Resource not found">>
                 [] status = 422 -> <<"Validation Error: " \o message>>
                 [] status = 500 -> <<"Server error. Please try again later.">>
                 [] status = 503 -> <<"Service unavailable. Please try again later.">>
                 [] OTHER -> <<"Error: " \o message>>
    ELSE IF error.request
      THEN <<"Network error. Please check your connection.">>
    ELSE <<"An unexpected error occurred.">>

\* a call through this.client when it is made: one request, nothing back yet
NewCall ==
    [sent |-> 1, state |-> "pending", failure |-> None, toasts |-> <<>>,
     resolved |-> None, rejected |-> None]

\* the response interceptor's first handler, and the method's return response.data
clientFulfilled(call, data) ==
    [call EXCEPT !.state = "resolved", !.resolved = Some(data)]

\* the response interceptor's second handler: handleError, then Promise.reject(error)
clientRejected(call, error) ==
    [call EXCEPT !.state = "rejected", !.failure = Some(error),
                 !.toasts = @ \o handleError(error), !.rejected = Some(error)]

(* ------------------ services/api.ts: uploadDocument -------------------- *)

\* a File: name, size in bytes, MIME type
ContractPdf == [name |-> "contract.pdf", size |-> 2097152, type |-> "application/pdf"]
NotesDoc == [name |-> "Notes.DOC", size |-> 512, type |-> "application/msword"]

UpperCase == "ABCDEFGHIJKLMNOPQRSTUVWXYZ"
LowerCase == "abcdefghijklmnopqrstuvwxyz"

\* one character of String.prototype.toLowerCase
lowerChar(c) ==
    IF \E i \in 1..Len(UpperCase) : SubSeq(UpperCase, i, i) = c
      THEN LET i == CHOOSE j \in 1..Len(UpperCase) : SubSeq(UpperCase, j, j) = c
           IN  SubSeq(LowerCase, i, i)
      ELSE c

RECURSIVE toLowerCase(_)
toLowerCase(str) ==
    IF Len(str) = 0 THEN ""
    ELSE toLowerCase(SubSeq(str, 1, Len(str) - 1)) \o lowerChar(SubSeq(str, Len(str), Len(str)))

endsWith(str, suffix) ==
    /\ Len(str) >= Len(suffix)
    /\ SubSeq(str, Len(str) - Len(suffix) + 1, Len(str)) = suffix

inferType(file) ==
    LET name == toLowerCase(file.name)
    IN  IF endsWith(name, ".pdf") THEN "pdf"
        ELSE IF endsWith(name, ".docx") \/ endsWith(name, ".doc") THEN "docx"
        ELSE "txt"

\* `${Date.now()}` and new Date().toISOString() at clock value t
dateNowToken(t) == "170000000000" \o ToString(t)
toISOString(t) == "2023-11-14T22:13:20." \o ToString(t) \o "Z"

\* the body of the backend's upload response: every key may be missing
EmptyRaw ==
    [document_id |-> None, id |-> None, filename |-> None, document_type |-> None,
     file_size |-> None, size |-> None, upload_timestamp |-> None, timestamp |-> None,
     processing_status |-> None, status |-> None, message |-> None]

\* mapUpload preferring the older key names (id, size, timestamp, status)
mapUploadLegacyFirst(raw, file, t) ==
    [document_id |-> Nullish(raw.id, Nullish(raw.document_id, dateNowToken(t))),
     filename |-> Nullish(raw.filename, file.name),
     document_type |-> Nullish(raw.document_type, inferType(file)),
     file_size |-> Nullish(raw.size, Nullish(raw.file_size, file.size)),
     upload_timestamp |-> Nullish(raw.timestamp, Nullish(raw.upload_timestamp, toISOString(t))),
     processing_status |-> Nullish(raw.status, Nullish(raw.processing_status, "processed")),
     message |-> Nullish(raw.message, "Document uploaded successfully")]

\* the mapped DocumentUploadResponse
mapUpload(raw, file, t) ==
    [document_id |-> Nullish(raw.document_id, Nullish(raw.id, dateNowToken(t))),
     filename |-> Nullish(raw.filename, file.name),
     document_type |-> Nullish(raw.document_type, inferType(file)),
     file_size |-> Nullish(raw.file_size, Nullish(raw.size, file.size)),
     upload_timestamp |-> Nullish(raw.upload_timestamp, Nullish(raw.timestamp, toISOString(t))),
     processing_status |-> Nullish(raw.processing_status, Nullish(raw.status, "processed")),
     message |-> Nullish(raw.message, "Document uploaded successfully")]

\* backend answers: the current shape, the older one (id/size/timestamp/status)
\* and a body with none of the keys
ScenarioRaw ==
    [EmptyRaw EXCEPT !.document_id = Some("d1"), !.filename = Some("contract.pdf"),
                     !.processing_status = Some("pending")]
LegacyRaw ==
    [EmptyRaw EXCEPT !.id = Some("d2"), !.size = Some(2097152),
                     !.timestamp = Some("2024-01-01T00:00:00.000Z"),
                     !.status = Some("completed")]
RawUploads == {ScenarioRaw, LegacyRaw, EmptyRaw}

\* files of the other extensions, and upload responses that carry, for one
\* field at a time, both of its keys, the first only or the second only
ReportDocx ==
    [name |-> "report.final.docx", size |-> 30000,
     type |-> "application/vnd.openxmlformats-officedocument.wordprocessingml.document"]
ReadmeMd == [name |-> "readme.md", size |-> 100, type |-> "text/plain"]
NormalizeFiles == {ContractPdf, NotesDoc, ReportDocx, ReadmeMd}

NormalizeRaws ==
    {EmptyRaw,
     [EmptyRaw EXCEPT !.document_type = Some("txt")],
     [EmptyRaw EXCEPT !.document_id = Some("d1"), !.id = Some("d2")],
     [EmptyRaw EXCEPT !.document_id = Some("d1")],
     [EmptyRaw EXCEPT !.id = Some("d2")],
     [EmptyRaw EXCEPT !.file_size = Some(0), !.size = Some(4096)],
     [EmptyRaw EXCEPT !.file_size = Some(0)],
     [EmptyRaw EXCEPT !.size = Some(4096)],
     [EmptyRaw EXCEPT !.upload_timestamp = Some("2024-02-02T00:00:00.000Z"),
                      !.timestamp = Some("2024-01-01T00:00:00.000Z")],
     [EmptyRaw EXCEPT !.upload_timestamp = Some("2024-02-02T00:00:00.000Z")],
     [EmptyRaw EXCEPT !.timestamp = Some("2024-01-01T00:00:00.000Z")],
     [EmptyRaw EXCEPT !.processing_status = Some("pending"), !.status = Some("completed")],
     [EmptyRaw EXCEPT !.processing_status = Some("pending")],
     [EmptyRaw EXCEPT !.status = Some("completed")]}

(* ------------------ services/mockApi.ts: demo mode --------------------- *)

\* str.includes(sub)
includes(str, sub) ==
    \E i \in 1..(Len(str) - Len(sub) + 1) : SubSeq(str, i, i + Len(sub) - 1) = sub

generateMockSummary(filename) ==
    LET name == toLowerCase(filename)
    IN  IF includes(name, "employment")
          THEN "Employment agreement outlining job responsibilities, compensation, and company policies."
        ELSE IF includes(name, "lease")
          THEN "Residential lease agreement detailing rental terms, responsibilities, and conditions."
        ELSE IF includes(name, "license")
          THEN "Software license agreement defining usage rights, restrictions, and legal obligations."
        ELSE "Legal document containing various terms, conditions, and contractual obligations."

generateMockRiskLevel(filename) ==
    LET name == toLowerCase(filename)
    IN  IF includes(name, "employment") THEN "medium"
        ELSE IF includes(name, "lease") THEN "low"
        ELSE IF includes(name, "license") THEN "high"
        ELSE "low"

mockDocuments ==
    <<[document_id |-> "demo-1", filename |-> "employment-contract.pdf",
       document_type |-> "pdf", file_size |-> 156789,
       upload_timestamp |-> toISOString(0), processing_status |-> "completed",
       summary |-> "Standard employment agreement with competitive salary, benefits, and standard clauses.",
       risk_level |-> "medium"],
      [document_id |-> "demo-2", filename |-> "lease-agreement.pdf",
       document_type |-> "pdf", file_size |-> 234567,
       upload_timestamp |-> toISOString(0), processing_status |-> "completed",
       summary |-> "Residential lease agreement with standard terms and tenant responsibilities.",
       risk_level |-> "low"]>>

\* new MockApiService(): its documents, and the completion timers its uploads set
NewMockApiService == [documents |-> mockDocuments, timers |-> <<>>]

\* MockApiService.uploadDocument after its 2 s wait: the new document is
\* stored as processing and a 3 s timer is set to complete it
mockUploadDocument(mock, file, t) ==
    LET newDoc == [document_id |-> "demo-" \o dateNowToken(t), filename |-> file.name,
                   document_type |-> IF endsWith(file.name, ".pdf") THEN "pdf"
                                     ELSE IF endsWith(file.name, ".docx") THEN "docx"
                                     ELSE "txt",
                   file_size |-> file.size, upload_timestamp |-> toISOString(t),
                   processing_status |-> "processing", summary |-> "",
                   risk_level |-> "low"]
    IN  [mock EXCEPT !.documents = Append(@, newDoc),
                     !.timers = Append(@, [document_id |-> newDoc.document_id,
                                           name |-> file.name])]

\* this.documents.find(d => d.document_id === documentId): its index, 0 for none
mockFind(documents, documentId) ==
    LET hits == {i \in 1..Len(documents) : documents[i].document_id = documentId}
    IN  IF hits = {} THEN 0 ELSE CHOOSE i \in hits : \A j \in hits : i <= j

\* the 3 s timer of an upload fires
mockComplete(mock, k) ==
    LET timer == mock.timers[k]
        i == mockFind(mock.documents, timer.document_id)
        rest == [j \in 1..(Len(mock.timers) - 1) |->
                    IF j < k THEN mock.timers[j] ELSE mock.timers[j + 1]]
    IN  IF i = 0 THEN [mock EXCEPT !.timers = rest]
        ELSE [mock EXCEPT !.timers = rest,
                          !.documents[i].processing_status = "completed",
                          !.documents[i].summary = generateMockSummary(timer.name),
                          !.documents[i].risk_level = generateMockRiskLevel(timer.name)]

\* MockApiService.pollDocumentStatus(documentId, maxAttempts, interval) called
\* the way the real adapter is, pollDocumentStatus(documentId, onStatusUpdate,
\* maxAttempts): the callback lands in maxAttempts, the bound in interval, and
\* neither is read; a 1 s timer is set
mockPollStarted(documentId, onStatusUpdate, maxAttempts) ==
    [IdlePoller EXCEPT !.state = "scheduled", !.documentId = documentId,
                       !.maxAttempts = maxAttempts, !.onStatusUpdate = onStatusUpdate,
                       !.timers = 1]

\* the 1 s wait is over: return this.getDocument(documentId)
mockPollReturns(p, documents) ==
    LET i == mockFind(documents, p.documentId)
        q == [p EXCEPT !.timers = @ - 1, !.attempts = @ + 1]
    IN  IF i = 0
          THEN [q EXCEPT !.state = "rejected",
                         !.rejected = Append(@, Error("Document not found"))]
          ELSE [q EXCEPT !.state = "resolved", !.fetched = Append(@, documents[i]),
                         !.resolved = Append(@, documents[i])]

(* ----------------------- store/index.ts: state ------------------------- *)

InitialState ==
    [documents |-> <<>>, currentDocument |-> None, summary |-> None,
     clauses |-> <<>>, alerts |-> <<>>, qaSessions |-> <<>>,
     isLoading |-> FALSE, uploadProgress |-> 0, error |-> None,
     successMessage |-> None]

\* { ...doc, ...updates }
spread(doc, updates) ==
    [f \in DOMAIN doc \cup DOMAIN updates |->
        IF f \in DOMAIN updates THEN updates[f] ELSE doc[f]]

\* addDocument putting the new document first
addDocumentFirst(s, document) ==
    [s EXCEPT !.documents = <<document>> \o @]

addDocument(s, document) ==
    [s EXCEPT !.documents = Append(@, document)]

setDocuments(s, documents) ==
    [s EXCEPT !.documents = documents]

\* updateDocument moving the updated documents to the end of the list
updateDocumentMovesLast(s, documentId, updates) ==
    LET hit(doc) == doc.document_id = documentId
        miss(doc) == doc.document_id # documentId
        hits == SelectSeq(s.documents, hit)
    IN  [s EXCEPT
           !.documents = SelectSeq(@, miss)
                            \o [i \in 1..Len(hits) |-> spread(hits[i], updates)],
           !.currentDocument =
                IF @ # None /\ @[1].document_id = documentId
                  THEN Some(spread(@[1], updates)) ELSE @]

updateDocument(s, documentId, updates) ==
    [s EXCEPT
       !.documents = [i \in 1..Len(@) |->
                        IF @[i].document_id = documentId THEN spread(@[i], updates) ELSE @[i]],
       !.currentDocument =
            IF @ # None /\ @[1].document_id = documentId
              THEN Some(spread(@[1], updates)) ELSE @]

(* ------------------ store/index.ts: uploadDocument --------------------- *)

\* set({ isLoading: true, uploadProgress: 0, error: null })
uploadDocumentBegin(s) ==
    [s EXCEPT !.isLoading = TRUE, !.uploadProgress = 0, !.error = None]

\* const newDocument: Document = { ... }
newDocument(result) ==
    [document_id |-> result.document_id, filename |-> result.filename,
     document_type |-> result.document_type, file_size |-> result.file_size,
     upload_timestamp |-> result.upload_timestamp,
     processing_status |-> result.processing_status]

\* addDocument, the success set, then finally
uploadDocumentThen(s, result) ==
    LET s1 == addDocument(s, newDocument(result))
        s2 == [s1 EXCEPT !.successMessage = Some("Document uploaded successfully!"),
                         !.uploadProgress = 100]
    IN  [s2 EXCEPT !.isLoading = FALSE]

\* error.response?.data?.message
responseMessage(error) ==
    IF error.response # None THEN error.response[1].message ELSE None

\* catch, then finally
uploadDocumentCatch(s, error) ==
    LET errorMessage == OrElse(responseMessage(error),
                               OrElse(Some(error.message), "Upload failed"))
        s1 == [s EXCEPT !.error = Some(errorMessage)]
    IN  [s1 EXCEPT !.isLoading = FALSE]

(* ------------- services/api.ts: the analysis operations ---------------- *)

\* raw?.analysis?.summary || raw?.simplified_version || 'Summary not available.'
mapSummary(raw, documentId) ==
    [document_id |-> documentId,
     summary |-> OrElse(raw.analysis_summary,
                        OrElse(raw.simplified_version, "Summary not available."))]

\* what the backend holds for each document
AnalysisOf(documentId) ==
    IF documentId = "d1"
      THEN [analysis_summary |-> Some("Lease of flat 4 for 12 months"),
            simplified_version |-> None]
      ELSE [analysis_summary |-> None,
            simplified_version |-> Some("Loan of 5000 repaid within a year")]

ClausesOf(documentId) ==
    IF documentId = "d1"
      THEN [document_id |-> "d1",
            clauses |-> <<[clause_id |-> "d1-c1", risk_level |-> "high"],
                          [clause_id |-> "d1-c2", risk_level |-> "low"]>>]
      ELSE [document_id |-> documentId,
            clauses |-> <<[clause_id |-> "d2-c1", risk_level |-> "medium"]>>]

AlertsOf(documentId) ==
    IF documentId = "d1"
      THEN [document_id |-> "d1",
            alerts |-> <<[alert_id |-> "d1-a1", risk_level |-> "high",
                          clause_reference |-> "d1-c1"]>>]
      ELSE [document_id |-> documentId,
            alerts |-> <<[alert_id |-> "d2-a1", risk_level |-> "critical",
                          clause_reference |-> "d2-c1"]>>]

(* ---- store/index.ts: generateSummary, extractClauses, fetchAlerts ------ *)

\* actionBegin leaving the previous error in place
actionBeginKeepsError(s) ==
    [s EXCEPT !.isLoading = TRUE]

\* set({ isLoading: true, error: null })
actionBegin(s) ==
    [s EXCEPT !.isLoading = TRUE, !.error = None]

\* catch with the action's default message, then finally
actionCatch(s, error, default) ==
    LET errorMessage == OrElse(responseMessage(error), default)
        s1 == [s EXCEPT !.error = Some(errorMessage)]
    IN  [s1 EXCEPT !.isLoading = FALSE]

\* generateSummaryThen dropping a result that is not for the selected document
generateSummaryThenIfCurrent(s, result) ==
    IF s.currentDocument # None /\ s.currentDocument[1].document_id = result.document_id
      THEN LET s1 == [s EXCEPT !.summary = Some(result.summary),
                               !.successMessage = Some("Summary generated successfully!")]
           IN  [s1 EXCEPT !.isLoading = FALSE]
      ELSE [s EXCEPT !.isLoading = FALSE]

\* generateSummaryThen clearing the error, as setSuccessMessage does
generateSummaryThenClearsError(s, result) ==
    LET s1 == [s EXCEPT !.summary = Some(result.summary),
                        !.successMessage = Some("Summary generated successfully!"),
                        !.error = None]
    IN  [s1 EXCEPT !.isLoading = FALSE]

generateSummaryThen(s, result) ==
    LET s1 == [s EXCEPT !.summary = Some(result.summary),
                        !.successMessage = Some("Summary generated successfully!")]
    IN  [s1 EXCEPT !.isLoading = FALSE]

generateSummaryCatch(s, error) ==
    actionCatch(s, error, "Failed to generate summary")

\* extractClausesThen adding the new clauses to the stored ones
extractClausesThenMerges(s, result) ==
    LET s1 == [s EXCEPT !.clauses = @ \o result.clauses,
                        !.successMessage = Some("Clauses extracted successfully!")]
    IN  [s1 EXCEPT !.isLoading = FALSE]

\* extractClausesThen keeping what an earlier response has already stored
extractClausesThenFirstWins(s, result) ==
    LET s1 == [s EXCEPT !.clauses = IF @ = <<>> THEN result.clauses ELSE @,
                        !.successMessage = Some("Clauses extracted successfully!")]
    IN  [s1 EXCEPT !.isLoading = FALSE]

extractClausesThen(s, result) ==
    LET s1 == [s EXCEPT !.clauses = result.clauses,
                        !.successMessage = Some("Clauses extracted successfully!")]
    IN  [s1 EXCEPT !.isLoading = FALSE]

extractClausesCatch(s, error) ==
    actionCatch(s, error, "Failed to extract clauses")

\* fetchAlertsThen resetting the clauses the alerts refer to
fetchAlertsThenResetsClauses(s, result) ==
    LET s1 == [s EXCEPT !.alerts = result.alerts, !.clauses = <<>>]
    IN  [s1 EXCEPT !.isLoading = FALSE]

fetchAlertsThen(s, result) ==
    LET s1 == [s EXCEPT !.alerts = result.alerts]
    IN  [s1 EXCEPT !.isLoading = FALSE]

\* fetchAlertsCatch emptying the alerts it could not refresh
fetchAlertsCatchClears(s, error) ==
    [actionCatch(s, error, "Failed to fetch alerts") EXCEPT !.alerts = <<>>]

fetchAlertsCatch(s, error) ==
    actionCatch(s, error, "Failed to fetch alerts")

(* --------------------- store/index.ts: askQuestion --------------------- *)

\* what the user asks and what POST /documents/{id}/ask answers
Questions == {"Who is the landlord?", "When does the lease end?"}
Answers == {"Asha Rao", "On 31 March"}

\* addQASession putting the new entry first
addQASessionFirst(s, session, t) ==
    [s EXCEPT !.qaSessions =
        <<[question |-> session.question, answer |-> session.answer,
           id |-> "qa_" \o dateNowToken(t), timestamp |-> toISOString(t)]>> \o @]

\* addQASession at clock value t
addQASession(s, session, t) ==
    [s EXCEPT !.qaSessions =
        Append(@, [question |-> session.question, answer |-> session.answer,
                   id |-> "qa_" \o dateNowToken(t), timestamp |-> toISOString(t)])]

\* get().addQASession({ question, answer: result.answer }), then finally
askQuestionThen(s, question, result, t) ==
    LET s1 == addQASession(s, [question |-> question, answer |-> result.answer], t)
    IN  [s1 EXCEPT !.isLoading = FALSE]

askQuestionCatch(s, error) ==
    actionCatch(s, error, "Failed to get answer")

(* ---- store/index.ts: fetchDocuments, deleteDocument, the selection ---- *)

\* documents the backend lists
DocA ==
    [document_id |-> "d1", filename |-> "lease.pdf", document_type |-> "pdf",
     file_size |-> 2097152, upload_timestamp |-> "2024-01-01T00:00:00.000Z",
     processing_status |-> "completed"]
DocB ==
    [document_id |-> "d2", filename |-> "loan.docx", document_type |-> "docx",
     file_size |-> 4096, upload_timestamp |-> "2024-01-02T00:00:00.000Z",
     processing_status |-> "processing"]
DocB2 == [DocB EXCEPT !.filename = "loan (1).docx"]

\* what GET /api/documents/list answers: { documents, total }
ListedDocuments == [documents |-> <<DocB, DocA, DocB2>>, total |-> 3]

setCurrentDocument(s, document) ==
    [s EXCEPT !.currentDocument = document]

\* removeDocument dropping only the first document with the id
removeDocumentFirstMatch(s, documentId) ==
    LET hits == {i \in 1..Len(s.documents) : s.documents[i].document_id = documentId}
        first == IF hits = {} THEN 0 ELSE CHOOSE i \in hits : \A j \in hits : i <= j
    IN  [s EXCEPT
           !.documents = [i \in 1..(Len(@) - (IF first = 0 THEN 0 ELSE 1)) |->
                             IF first = 0 \/ i < first THEN @[i] ELSE @[i + 1]],
           !.currentDocument =
                IF @ # None /\ @[1].document_id = documentId THEN None ELSE @]

removeDocument(s, documentId) ==
    LET keep(doc) == doc.document_id # documentId
    IN  [s EXCEPT
           !.documents = SelectSeq(@, keep),
           !.currentDocument =
                IF @ # None /\ @[1].document_id = documentId THEN None ELSE @]

\* set({ documents: result.documents }), then finally
fetchDocumentsThen(s, result) ==
    LET s1 == [s EXCEPT !.documents = result.documents]
    IN  [s1 EXCEPT !.isLoading = FALSE]

fetchDocumentsCatch(s, error) ==
    actionCatch(s, error, "Failed to fetch documents")

\* get().removeDocument(documentId), the success set, then finally
deleteDocumentThen(s, documentId) ==
    LET s1 == removeDocument(s, documentId)
        s2 == [s1 EXCEPT !.successMessage = Some("Document deleted successfully!")]
    IN  [s2 EXCEPT !.isLoading = FALSE]

\* deleteDocumentCatch removing the document although the backend refused
deleteDocumentCatchRemoves(s, documentId, error) ==
    actionCatch(removeDocument(s, documentId), error, "Failed to delete document")

deleteDocumentCatch(s, documentId, error) ==
    actionCatch(s, error, "Failed to delete document")

(* -------------------- the store's async actions ------------------------ *)

CallIds == {"c1", "c2"}

NoCalls == [c \in CallIds |-> None]

\* what a resolved action leaves behind: its outcome, and in short the one before
Brief(l) ==
    IF l.action = "none" THEN l
    ELSE [action |-> l.action, ok |-> l.ok, arg |-> l.arg]

Outcome(action, ok, arg, response, returned) ==
    [action |-> action, ok |-> ok, arg |-> arg, response |-> response,
     returned |-> returned, before |-> Brief(last)]

\* what the awaited adapter call can throw
ServerError ==
    [message |-> "Request failed with status code 500",
     response |-> Some([status |-> 500, message |-> None])]
ValidationError ==
    [message |-> "Request failed with status code 422",
     response |-> Some([status |-> 422, message |-> Some("Unsupported file type")])]
AdapterThrows == {NetworkError, ServerError, ValidationError}

Pending(c, action) == inflight[c] # None /\ inflight[c][1].action = action

UploadsPending == Cardinality({c \in CallIds : Pending(c, "uploadDocument")})

\* uploadDocument(file) up to its await
UploadDocument(c, file) ==
    /\ inflight[c] = None
    /\ Len(store.documents) + UploadsPending < MaxDocs
    /\ store' = uploadDocumentBegin(store)
    /\ inflight' = [inflight EXCEPT ![c] = Some([action |-> "uploadDocument", file |-> file])]
    /\ UNCHANGED <<last, now, pollers, pageVars, client, demo>>

\* the backend answers raw: the adapter maps it, the store commits
UploadDocumentResolves(c, raw) ==
    /\ Pending(c, "uploadDocument")
    /\ LET result == mapUpload(raw, inflight[c][1].file, now)
       IN  /\ store' = uploadDocumentThen(store, result)
           /\ last' = Outcome("uploadDocument", TRUE, inflight[c][1].file,
                               [raw |-> raw, result |-> result],
                               Some(newDocument(result)))
    /\ inflight' = [inflight EXCEPT ![c] = None]
    /\ UNCHANGED <<now, pollers, pageVars, client, demo>>

\* the adapter call throws
UploadDocumentRejects(c, error) ==
    /\ Pending(c, "uploadDocument")
    /\ store' = uploadDocumentCatch(store, error)
    /\ last' = Outcome("uploadDocument", FALSE, inflight[c][1].file, error, None)
    /\ inflight' = [inflight EXCEPT ![c] = None]
    /\ UNCHANGED <<now, pollers, pageVars, client, demo>>

\* generateSummary, extractClauses or fetchAlerts for a document, up to its await
Analyse(c, action, documentId) ==
    /\ inflight[c] = None
    /\ store' = actionBegin(store)
    /\ inflight' = [inflight EXCEPT ![c] = Some([action |-> action, documentId |-> documentId])]
    /\ UNCHANGED <<last, now, pollers, pageVars, client, demo>>

GenerateSummaryResolves(c) ==
    /\ Pending(c, "generateSummary")
    /\ LET documentId == inflight[c][1].documentId
           result == mapSummary(AnalysisOf(documentId), documentId)
       IN  /\ store' = generateSummaryThen(store, result)
           /\ last' = Outcome("generateSummary", TRUE, documentId, result, None)
    /\ inflight' = [inflight EXCEPT ![c] = None]
    /\ UNCHANGED <<now, pollers, pageVars, client, demo>>

GenerateSummaryRejects(c, error) ==
    /\ Pending(c, "generateSummary")
    /\ store' = generateSummaryCatch(store, error)
    /\ last' = Outcome("generateSummary", FALSE, inflight[c][1].documentId, error, None)
    /\ inflight' = [inflight EXCEPT ![c] = None]
    /\ UNCHANGED <<now, pollers, pageVars, client, demo>>

ExtractClausesResolves(c) ==
    /\ Pending(c, "extractClauses")
    /\ LET documentId == inflight[c][1].documentId
           result == ClausesOf(documentId)
       IN  /\ store' = extractClausesThen(store, result)
           /\ last' = Outcome("extractClauses", TRUE, documentId, result, None)
    /\ inflight' = [inflight EXCEPT ![c] = None]
    /\ UNCHANGED <<now, pollers, pageVars, client, demo>>

ExtractClausesRejects(c, error) ==
    /\ Pending(c, "extractClauses")
    /\ store' = extractClausesCatch(store, error)
    /\ last' = Outcome("extractClauses", FALSE, inflight[c][1].documentId, error, None)
    /\ inflight' = [inflight EXCEPT ![c] = None]
    /\ UNCHANGED <<now, pollers, pageVars, client, demo>>

FetchAlertsResolves(c) ==
    /\ Pending(c, "fetchAlerts")
    /\ LET documentId == inflight[c][1].documentId
           result == AlertsOf(documentId)
       IN  /\ store' = fetchAlertsThen(store, result)
           /\ last' = Outcome("fetchAlerts", TRUE, documentId, result, None)
    /\ inflight' = [inflight EXCEPT ![c] = None]
    /\ UNCHANGED <<now, pollers, pageVars, client, demo>>

FetchAlertsRejects(c, error) ==
    /\ Pending(c, "fetchAlerts")
    /\ store' = fetchAlertsCatch(store, error)
    /\ last' = Outcome("fetchAlerts", FALSE, inflight[c][1].documentId, error, None)
    /\ inflight' = [inflight EXCEPT ![c] = None]
    /\ UNCHANGED <<now, pollers, pageVars, client, demo>>

AsksPending == Cardinality({c \in CallIds : Pending(c, "askQuestion")})

\* askQuestion(documentId, question) up to its await
AskQuestion(c, documentId, question) ==
    /\ inflight[c] = None
    /\ Len(store.qaSessions) + AsksPending < MaxSessions
    /\ store' = actionBegin(store)
    /\ inflight' = [inflight EXCEPT ![c] = Some([action |-> "askQuestion",
                                                 documentId |-> documentId,
                                                 question |-> question])]
    /\ UNCHANGED <<last, now, pollers, pageVars, client, demo>>

\* the backend answers: the store appends the session and returns the answer
AskQuestionResolves(c, answer) ==
    /\ Pending(c, "askQuestion")
    /\ LET result == [document_id |-> inflight[c][1].documentId,
                      question |-> inflight[c][1].question, answer |-> answer]
       IN  /\ store' = askQuestionThen(store, inflight[c][1].question, result, now)
           /\ last' = Outcome("askQuestion", TRUE, inflight[c][1].documentId, result,
                               Some(result.answer))
    /\ inflight' = [inflight EXCEPT ![c] = None]
    /\ UNCHANGED <<now, pollers, pageVars, client, demo>>

AskQuestionRejects(c, error) ==
    /\ Pending(c, "askQuestion")
    /\ store' = askQuestionCatch(store, error)
    /\ last' = Outcome("askQuestion", FALSE, inflight[c][1].documentId, error, None)
    /\ inflight' = [inflight EXCEPT ![c] = None]
    /\ UNCHANGED <<now, pollers, pageVars, client, demo>>

\* fetchDocuments() up to its await
FetchDocuments(c) ==
    /\ inflight[c] = None
    /\ store' = actionBegin(store)
    /\ inflight' = [inflight EXCEPT ![c] = Some([action |-> "fetchDocuments"])]
    /\ UNCHANGED <<last, now, pollers, pageVars, client, demo>>

FetchDocumentsResolves(c, result) ==
    /\ Pending(c, "fetchDocuments")
    /\ store' = fetchDocumentsThen(store, result)
    /\ last' = Outcome("fetchDocuments", TRUE, None, result, None)
    /\ inflight' = [inflight EXCEPT ![c] = None]
    /\ UNCHANGED <<now, pollers, pageVars, client, demo>>

FetchDocumentsRejects(c, error) ==
    /\ Pending(c, "fetchDocuments")
    /\ store' = fetchDocumentsCatch(store, error)
    /\ last' = Outcome("fetchDocuments", FALSE, None, error, None)
    /\ inflight' = [inflight EXCEPT ![c] = None]
    /\ UNCHANGED <<now, pollers, pageVars, client, demo>>

\* deleteDocument(documentId) up to its await
DeleteDocument(c, documentId) ==
    /\ inflight[c] = None
    /\ store' = actionBegin(store)
    /\ inflight' = [inflight EXCEPT ![c] = Some([action |-> "deleteDocument",
                                                 documentId |-> documentId])]
    /\ UNCHANGED <<last, now, pollers, pageVars, client, demo>>

DeleteDocumentResolves(c) ==
    /\ Pending(c, "deleteDocument")
    /\ store' = deleteDocumentThen(store, inflight[c][1].documentId)
    /\ last' = Outcome("deleteDocument", TRUE, inflight[c][1].documentId,
                       [message |-> "Document deleted"], None)
    /\ inflight' = [inflight EXCEPT ![c] = None]
    /\ UNCHANGED <<now, pollers, pageVars, client, demo>>

DeleteDocumentRejects(c, error) ==
    /\ Pending(c, "deleteDocument")
    /\ store' = deleteDocumentCatch(store, inflight[c][1].documentId, error)
    /\ last' = Outcome("deleteDocument", FALSE, inflight[c][1].documentId, error, None)
    /\ inflight' = [inflight EXCEPT ![c] = None]
    /\ UNCHANGED <<now, pollers, pageVars, client, demo>>

\* setCurrentDocument(document): synchronous, whatever is in flight
SetCurrentDocument(document) ==
    /\ store' = setCurrentDocument(store, document)
    /\ UNCHANGED <<inflight, last, now, pollers, pageVars, client, demo>>

\* extractClauses(documentId) and fetchAlerts(documentId) called one right
\* after the other in one turn of the event loop: each runs up to its await
AnalyseBoth(documentId) ==
    /\ inflight = NoCalls
    /\ store' = actionBegin(actionBegin(store))
    /\ inflight' = [inflight EXCEPT
                      !["c1"] = Some([action |-> "extractClauses", documentId |-> documentId]),
                      !["c2"] = Some([action |-> "fetchAlerts", documentId |-> documentId])]
    /\ UNCHANGED <<last, now, pollers, pageVars, client, demo>>

\* the same action called for d1 and then for d2 in one turn of the event
\* loop: the call for d1 is the older one, each runs up to its await
AnalyseTwice(action) ==
    /\ inflight = NoCalls
    /\ store' = actionBegin(actionBegin(store))
    /\ inflight' = [inflight EXCEPT
                      !["c1"] = Some([action |-> action, documentId |-> "d1"]),
                      !["c2"] = Some([action |-> action, documentId |-> "d2"])]
    /\ UNCHANGED <<last, now, pollers, pageVars, client, demo>>

(* ------------------- the store's synchronous setters ------------------- *)

AddDocument(document) ==
    /\ Len(store.documents) <= MaxDocs
    /\ store' = addDocument(store, document)
    /\ UNCHANGED <<inflight, last, now, pollers, pageVars, client, demo>>

UpdateDocument(documentId, updates) ==
    /\ store' = updateDocument(store, documentId, updates)
    /\ UNCHANGED <<inflight, last, now, pollers, pageVars, client, demo>>

RemoveDocument(documentId) ==
    /\ store' = removeDocument(store, documentId)
    /\ UNCHANGED <<inflight, last, now, pollers, pageVars, client, demo>>

SetDocuments(documents) ==
    /\ store' = setDocuments(store, documents)
    /\ UNCHANGED <<inflight, last, now, pollers, pageVars, client, demo>>

\* a document of the list is selected: setCurrentDocument(documents[i])
SelectDocument(i) ==
    /\ i \in 1..Len(store.documents)
    /\ SetCurrentDocument(Some(store.documents[i]))

(* ------------------------- pages/UploadPage ---------------------------- *)

AcceptedTypes ==
    {"application/pdf", "application/msword",
     "application/vnd.openxmlformats-officedocument.wordprocessingml.document",
     "text/plain"}

\* the filter with the two tests joined by || instead of &&
isValidFileEither(file) ==
    LET isValidType == file.type \in AcceptedTypes
        isValidSize == file.size <= 10 * 1024 * 1024
    IN  isValidType \/ isValidSize

\* the predicate onDrop filters with
isValidFile(file) ==
    LET isValidType == file.type \in AcceptedTypes
        isValidSize == file.size <= 10 * 1024 * 1024
    IN  isValidType /\ isValidSize

validFiles(acceptedFiles) == SelectSeq(acceptedFiles, isValidFile)

clearMessages(s) == [s EXCEPT !.error = None, !.successMessage = None]

\* files a user can drop: one over the size limit, one exactly at it, one of
\* a type that is not accepted
BigPdf == [name |-> "big.pdf", size |-> 10485761, type |-> "application/pdf"]
ExactTxt == [name |-> "exact.txt", size |-> 10485760, type |-> "text/plain"]
PhotoPng == [name |-> "photo.png", size |-> 1000, type |-> "image/png"]
DroppableFiles == {ContractPdf, BigPdf, ExactTxt, PhotoPng}

DropLists == UNION {[1..n -> DroppableFiles] : n \in 1..MaxSelected}

OnDrop(acceptedFiles) ==
    /\ Len(selectedFiles) + Len(acceptedFiles) <= MaxSelected
    /\ selectedFiles' = selectedFiles \o validFiles(acceptedFiles)
    /\ store' = clearMessages(store)
    /\ offered' = offered \cup Elements(acceptedFiles)
    /\ UNCHANGED <<inflight, last, now, pollers, client, demo, uploadFilesPc, requested>>

RemoveFile(index) ==
    /\ index \in 1..Len(selectedFiles)
    /\ selectedFiles' = [i \in 1..(Len(selectedFiles) - 1) |->
                            IF i < index THEN selectedFiles[i] ELSE selectedFiles[i + 1]]
    /\ UNCHANGED <<store, inflight, last, now, pollers, client, demo, uploadFilesPc, requested, offered>>

\* uploadFiles calling the store's uploadDocument(file), up to that action's await
CallUploadDocument(file) ==
    /\ inflight["c1"] = None
    /\ Len(requested) < MaxDocs
    /\ store' = uploadDocumentBegin(store)
    /\ inflight' = [inflight EXCEPT !["c1"] = Some([action |-> "uploadDocument", file |-> file])]
    /\ requested' = Append(requested, file)

\* a click on the upload button (disabled while isLoading): the loop's first turn
UploadFiles ==
    /\ uploadFilesPc = None
    /\ ~store.isLoading
    /\ Len(selectedFiles) # 0
    /\ CallUploadDocument(selectedFiles[1])
    /\ uploadFilesPc' = Some([files |-> selectedFiles, i |-> 1])
    /\ UNCHANGED <<last, now, pollers, client, demo, selectedFiles, offered>>

\* the awaited uploadDocument has settled: the next turn of the loop
UploadFilesNext ==
    /\ uploadFilesPc # None
    /\ uploadFilesPc[1].i < Len(uploadFilesPc[1].files)
    /\ CallUploadDocument(uploadFilesPc[1].files[uploadFilesPc[1].i + 1])
    /\ uploadFilesPc' = Some([uploadFilesPc[1] EXCEPT !.i = @ + 1])
    /\ UNCHANGED <<last, now, pollers, client, demo, selectedFiles, offered>>

\* the loop is over and the 3 s timer it set fires
UploadFilesClears ==
    /\ uploadFilesPc # None
    /\ uploadFilesPc[1].i = Len(uploadFilesPc[1].files)
    /\ inflight["c1"] = None
    /\ selectedFiles' = <<>>
    /\ uploadFilesPc' = None
    /\ UNCHANGED <<store, inflight, last, now, pollers, client, demo, requested, offered>>

\* a millisecond passes
Tick ==
    /\ now < MaxClock
    /\ now' = now + 1
    /\ UNCHANGED <<store, inflight, last, pollers, pageVars, client, demo>>

(* ------------------------ the poller's steps --------------------------- *)

\* a tick that writes every fetched status into the store
onStatusUpdateCommits(s, documentId, status) ==
    updateDocument(s, documentId, [processing_status |-> status.status])

\* onStatusUpdate(status) seen from the store: the callback is the caller's,
\* pollDocumentStatus itself holds no reference to the store, and no caller
\* in the repository passes a callback that writes it
onStatusUpdate(s, documentId, status) == s

PollDocumentStatus(p, documentId, callback, maxAttempts) ==
    /\ pollers[p].state = "idle"
    /\ pollers' = [pollers EXCEPT ![p] = pollStarted(documentId, callback, maxAttempts)]
    /\ UNCHANGED <<store, inflight, last, now, pageVars, client, demo>>

PollStatusArrives(p, status) ==
    /\ pollers[p].inFlight > 0
    /\ pollers' = [pollers EXCEPT ![p] = pollStatus(@, status)]
    /\ store' = IF pollers[p].onStatusUpdate
                  THEN onStatusUpdate(store, pollers[p].documentId, status)
                  ELSE store
    /\ UNCHANGED <<inflight, last, now, pageVars, client, demo>>

PollStatusThrows(p, error) ==
    /\ pollers[p].inFlight > 0
    /\ pollers' = [pollers EXCEPT ![p] = pollCatch(@, error)]
    /\ UNCHANGED <<store, inflight, last, now, pageVars, client, demo>>

PollTimerFires(p) ==
    /\ pollers[p].timers > 0
    /\ pollers' = [pollers EXCEPT ![p] = pollAgain(@)]
    /\ UNCHANGED <<store, inflight, last, now, pageVars, client, demo>>

(* ------------------------ the client's steps --------------------------- *)

\* a method of ApiService awaits this.client.get / post / delete
ClientRequest ==
    /\ Len(client) < MaxCalls
    /\ client' = Append(client, NewCall)
    /\ UNCHANGED <<store, inflight, last, now, pollers, pageVars, demo>>

\* a 2xx response arrives for call i
ClientResponse(i, data) ==
    /\ i \in 1..Len(client)
    /\ client[i].state = "pending"
    /\ client' = [client EXCEPT ![i] = clientFulfilled(@, data)]
    /\ UNCHANGED <<store, inflight, last, now, pollers, pageVars, demo>>

\* call i fails: another status, no response, or the request never went out
ClientError(i, error) ==
    /\ i \in 1..Len(client)
    /\ client[i].state = "pending"
    /\ client' = [client EXCEPT ![i] = clientRejected(@, error)]
    /\ UNCHANGED <<store, inflight, last, now, pollers, pageVars, demo>>

(* ------------------------- demo mode's steps --------------------------- *)

MockUploadDocument(file) ==
    /\ Len(demo.documents) < Len(mockDocuments) + MaxDocs
    /\ demo' = mockUploadDocument(demo, file, now)
    /\ UNCHANGED <<store, inflight, last, now, pollers, pageVars, client>>

MockProcessingDone(k) ==
    /\ k \in 1..Len(demo.timers)
    /\ demo' = mockComplete(demo, k)
    /\ UNCHANGED <<store, inflight, last, now, pollers, pageVars, client>>

MockPollDocumentStatus(p, documentId, callback, maxAttempts) ==
    /\ pollers[p].state = "idle"
    /\ pollers' = [pollers EXCEPT ![p] = mockPollStarted(documentId, callback, maxAttempts)]
    /\ UNCHANGED <<store, inflight, last, now, pageVars, client, demo>>

MockPollTimerFires(p) ==
    /\ pollers[p].timers > 0
    /\ pollers' = [pollers EXCEPT ![p] = mockPollReturns(@, demo.documents)]
    /\ UNCHANGED <<store, inflight, last, now, pageVars, client, demo>>

(* --------------------------- specifications ---------------------------- *)

Init ==
    /\ store = InitialState
    /\ inflight = NoCalls
    /\ last = [action |-> "none"]
    /\ now = 0
    /\ pollers = [p \in PollerIds |-> IdlePoller]
    /\ selectedFiles = <<>>
    /\ uploadFilesPc = None
    /\ requested = <<>>
    /\ offered = {}
    /\ client = <<>>
    /\ demo = NewMockApiService

\* one pollDocumentStatus call against every status endpoint
NextPoll ==
    \/ \E d \in DocIds, cb \in BOOLEAN, n \in 0..MaxAttempts :
          PollDocumentStatus("p1", d, cb, n)
    \/ \E status \in StatusReplies : PollStatusArrives("p1", status)
    \/ \E error \in StatusThrows : PollStatusThrows("p1", error)
    \/ PollTimerFires("p1")

SpecPoll == Init /\ [][NextPoll]_vars

\* uploads, overlapping or not, of two files, while the clock runs
NextDocs ==
    \/ \E c \in CallIds, file \in {ContractPdf, NotesDoc} : UploadDocument(c, file)
    \/ \E c \in CallIds, raw \in RawUploads : UploadDocumentResolves(c, raw)
    \/ \E c \in CallIds, error \in AdapterThrows : UploadDocumentRejects(c, error)
    \/ Tick

SpecDocs == Init /\ [][NextDocs]_vars

\* the three analysis actions, overlapping or not, for two documents
AnalysisActions == {"generateSummary", "extractClauses", "fetchAlerts"}
AnalysisThrows == {NetworkError, ValidationError}

NextAnalysis ==
    \/ \E c \in CallIds, action \in AnalysisActions, d \in DocIds : Analyse(c, action, d)
    \/ \E c \in CallIds : GenerateSummaryResolves(c)
    \/ \E c \in CallIds, error \in AnalysisThrows : GenerateSummaryRejects(c, error)
    \/ \E c \in CallIds : ExtractClausesResolves(c)
    \/ \E c \in CallIds, error \in AnalysisThrows : ExtractClausesRejects(c, error)
    \/ \E c \in CallIds : FetchAlertsResolves(c)
    \/ \E c \in CallIds, error \in AnalysisThrows : FetchAlertsRejects(c, error)

SpecAnalysis == Init /\ [][NextAnalysis]_vars

\* the upload page: drops, removals and the upload loop
NextUploadPage ==
    \/ \E acceptedFiles \in DropLists : OnDrop(acceptedFiles)
    \/ \E index \in 1..MaxSelected : RemoveFile(index)
    \/ UploadFiles
    \/ UploadFilesNext
    \/ UploadFilesClears
    \/ UploadDocumentResolves("c1", ScenarioRaw)
    \/ UploadDocumentRejects("c1", NetworkError)

SpecUploadPage == Init /\ [][NextUploadPage]_vars

\* uploads followed by polls for the stored documents
LifecycleReplies ==
    {[status |-> st, error_message |-> None] : st \in {"processing", "completed", "failed"}}

StoredIds == {store.documents[i].document_id : i \in 1..Len(store.documents)}

NextLifecycle ==
    \/ UploadDocument("c1", ContractPdf)
    \/ \E raw \in RawUploads : UploadDocumentResolves("c1", raw)
    \/ UploadDocumentRejects("c1", NetworkError)
    \/ \E p \in PollerIds, d \in StoredIds : PollDocumentStatus(p, d, TRUE, MaxAttempts)
    \/ \E p \in PollerIds, status \in LifecycleReplies : PollStatusArrives(p, status)
    \/ \E p \in PollerIds : PollStatusThrows(p, NetworkError)
    \/ \E p \in PollerIds : PollTimerFires(p)

SpecLifecycle == Init /\ [][NextLifecycle]_vars

\* questions, overlapping or not, about two documents, while the clock runs
NextQA ==
    \/ \E c \in CallIds, d \in DocIds, question \in Questions : AskQuestion(c, d, question)
    \/ \E c \in CallIds, answer \in Answers : AskQuestionResolves(c, answer)
    \/ \E c \in CallIds, error \in AnalysisThrows : AskQuestionRejects(c, error)
    \/ Tick

SpecQA == Init /\ [][NextQA]_vars

StoreThrows == {NetworkError, ValidationError}

\* the seven async actions one after another, each succeeding or failing,
\* and the selection changing at any moment
NextStore ==
    \/ UploadDocument("c1", ContractPdf)
    \/ UploadDocumentResolves("c1", ScenarioRaw)
    \/ \E error \in StoreThrows : UploadDocumentRejects("c1", error)
    \/ FetchDocuments("c1")
    \/ FetchDocumentsResolves("c1", ListedDocuments)
    \/ FetchDocumentsRejects("c1", NetworkError)
    \/ \E action \in AnalysisActions : Analyse("c1", action, "d1")
    \/ GenerateSummaryResolves("c1")
    \/ \E error \in StoreThrows : GenerateSummaryRejects("c1", error)
    \/ ExtractClausesResolves("c1")
    \/ ExtractClausesRejects("c1", NetworkError)
    \/ FetchAlertsResolves("c1")
    \/ FetchAlertsRejects("c1", NetworkError)
    \/ AskQuestion("c1", "d1", "Who is the landlord?")
    \/ AskQuestionResolves("c1", "Asha Rao")
    \/ AskQuestionRejects("c1", NetworkError)
    \/ DeleteDocument("c1", "d2")
    \/ DeleteDocumentResolves("c1")
    \/ DeleteDocumentRejects("c1", NetworkError)
    \/ \E document \in {None, Some(DocB)} : SetCurrentDocument(document)

SpecStore == Init /\ [][NextStore]_vars

\* the document list fetched, documents deleted and the selection changed
\* while the analyses of d1 and a question about it are under way
NextSelection ==
    \/ FetchDocuments("c1")
    \/ FetchDocumentsResolves("c1", ListedDocuments)
    \/ \E d \in DocIds : DeleteDocument("c1", d)
    \/ DeleteDocumentResolves("c1")
    \/ DeleteDocumentRejects("c1", NetworkError)
    \/ \E document \in {None, Some(DocA), Some(DocB)} : SetCurrentDocument(document)
    \/ \E action \in AnalysisActions : Analyse("c2", action, "d1")
    \/ GenerateSummaryResolves("c2")
    \/ ExtractClausesResolves("c2")
    \/ FetchAlertsResolves("c2")
    \/ AskQuestion("c2", "d1", "Who is the landlord?")
    \/ AskQuestionResolves("c2", "Asha Rao")

SpecSelection == Init /\ [][NextSelection]_vars

\* calls through the axios client, overlapping or not, each answered or failing
NextClient ==
    \/ ClientRequest
    \/ \E i \in 1..MaxCalls, data \in ResponseBodies : ClientResponse(i, data)
    \/ \E i \in 1..MaxCalls, error \in ClientErrors : ClientError(i, error)

SpecClient == Init /\ [][NextClient]_vars

\* extractClauses and fetchAlerts started together for a document, their
\* responses arriving in either order, each succeeding or failing
NextRace ==
    \/ \E d \in DocIds : AnalyseBoth(d)
    \/ ExtractClausesResolves("c1")
    \/ \E error \in AnalysisThrows : ExtractClausesRejects("c1", error)
    \/ FetchAlertsResolves("c2")
    \/ \E error \in AnalysisThrows : FetchAlertsRejects("c2", error)

SpecRace == Init /\ [][NextRace]_vars

\* an action started for d1 and then for d2, the two responses arriving in
\* either order, each a success or a failure
NextOverlap ==
    \/ \E action \in AnalysisActions : AnalyseTwice(action)
    \/ \E c \in CallIds : GenerateSummaryResolves(c)
    \/ \E c \in CallIds : GenerateSummaryRejects(c, NetworkError)
    \/ \E c \in CallIds : ExtractClausesResolves(c)
    \/ \E c \in CallIds : ExtractClausesRejects(c, NetworkError)
    \/ \E c \in CallIds : FetchAlertsResolves(c)
    \/ \E c \in CallIds : FetchAlertsRejects(c, NetworkError)

SpecOverlap == Init /\ [][NextOverlap]_vars

\* demo mode: uploads, their completion timers, and polls for the stored
\* documents and for an unknown id

NextDemo ==
    \/ MockUploadDocument(ContractPdf)
    \/ \E k \in 1..MaxDocs : MockProcessingDone(k)
    \/ \E p \in PollerIds, d \in {demo.documents[i].document_id : i \in 1..Len(demo.documents)} \cup {"demo-404"}, cb \in BOOLEAN :
          MockPollDocumentStatus(p, d, cb, MaxAttempts)
    \/ \E p \in PollerIds : MockPollTimerFires(p)
    \/ Tick

SpecDemo == Init /\ [][NextDemo]_vars

\* uploads of files of every extension, answered with every key combination
NextNormalize ==
    \/ \E file \in NormalizeFiles : UploadDocument("c1", file)
    \/ \E raw \in NormalizeRaws : UploadDocumentResolves("c1", raw)
    \/ Tick

SpecNormalize == Init /\ [][NextNormalize]_vars

\* the document list built up, updated and cut down by the setters, by
\* uploads and by deletions

NextOrder ==
    \/ \E document \in {DocA, DocB, DocB2} : AddDocument(document)
    \/ \E d \in DocIds, updates \in {[processing_status |-> "failed"]} : UpdateDocument(d, updates)
    \/ \E d \in DocIds : RemoveDocument(d)
    \/ UploadDocument("c1", ContractPdf)
    \/ UploadDocumentResolves("c1", ScenarioRaw)
    \/ \E d \in DocIds : DeleteDocument("c1", d)
    \/ DeleteDocumentResolves("c1")

SpecOrder == Init /\ [][NextOrder]_vars

\* the list and a selection made from it, under every operation that
\* writes documents or currentDocument
NextCurrent ==
    \/ \E i \in 1..MaxDocs : SelectDocument(i)
    \/ SetCurrentDocument(None)
    \/ \E document \in {DocA, DocB} : AddDocument(document)
    \/ \E d \in DocIds, updates \in {[processing_status |-> "failed"]} : UpdateDocument(d, updates)
    \/ \E d \in DocIds : RemoveDocument(d)
    \/ \E documents \in {<<DocB>>, <<DocA, DocB>>} : SetDocuments(documents)
    \/ UploadDocument("c1", ContractPdf)
    \/ UploadDocumentResolves("c1", ScenarioRaw)
    \/ FetchDocuments("c1")
    \/ FetchDocumentsResolves("c1", ListedDocuments)
    \/ \E d \in DocIds : DeleteDocument("c1", d)
    \/ DeleteDocumentResolves("c1")

SpecCurrent == Init /\ [][NextCurrent]_vars

(* ------------------------ claims on the poller ------------------------- *)

Started(q) == q.state # "idle"
Terminal(status) == status \in {"completed", "failed"}
AllNonTerminal(q) == \A i \in 1..Len(q.fetched) : ~Terminal(q.fetched[i].status)
\* a status request went out and threw instead of answering
Threw(q) == q.state = "rejected" /\ Len(q.fetched) < q.attempts
TimedOut(q) == q.state = "rejected" /\ q.rejected = <<Error(PollTimeoutMessage)>>
LastFetched(q) == q.fetched[Len(q.fetched)]

\* C1: with maxAttempts = N >= 1 and only non-terminal answers, the poll
\* issues exactly N status requests and then rejects with the timeout error:
\* it goes on while fewer than N answers arrived, rejects with the timeout
\* when the N-th arrives, and never issues request N+1.
PollBound ==
    \A p \in PollerIds :
        LET q == pollers[p]
        IN  (Started(q) /\ q.maxAttempts >= 1 /\ AllNonTerminal(q) /\ ~Threw(q)) =>
               /\ q.attempts <= q.maxAttempts
               /\ Len(q.fetched) < q.maxAttempts => q.state \in {"fetching", "scheduled"}
               /\ Len(q.fetched) = q.maxAttempts => TimedOut(q) /\ q.attempts = q.maxAttempts
               /\ q.resolved = <<>>

PollBoundWitness ==
    /\ pollers["p1"].maxAttempts = 3
    /\ Len(pollers["p1"].fetched) = 3
    /\ AllNonTerminal(pollers["p1"])
    /\ TimedOut(pollers["p1"])

\* C2: when the answers are k non-terminal statuses and then completed, the
\* poll resolves with that completed status, and a poll given a callback has
\* invoked it once per answer, in the order the answers arrived (at every
\* moment the callback's log is the fetch log).
PollCompletes ==
    \A p \in PollerIds :
        LET q == pollers[p]
        IN  /\ q.onStatusUpdate => q.notified = q.fetched
            /\ ~q.onStatusUpdate => q.notified = <<>>
            /\ (Len(q.fetched) > 0 /\ LastFetched(q).status = "completed") =>
                  /\ q.state = "resolved"
                  /\ q.resolved = <<LastFetched(q)>>
                  /\ q.rejected = <<>>
                  /\ Len(q.fetched) <= q.maxAttempts \/ Len(q.fetched) = 1
            /\ q.state = "resolved" => LastFetched(q).status = "completed"

PollCompletesWitness ==
    LET q == pollers["p1"]
    IN  /\ q.state = "resolved"
        /\ q.onStatusUpdate
        /\ Len(q.notified) = 3
        /\ [i \in 1..3 |-> q.notified[i].status] = <<"processing", "processing", "completed">>

\* C4: a tick that fetches failed rejects on that tick (no further request),
\* with the server's error_message when it carries a non-empty one and with
\* "Document processing failed" otherwise, which is not the timeout message.
PollFailed ==
    /\ PollFailedMessage # PollTimeoutMessage
    /\ \A p \in PollerIds :
        LET q == pollers[p]
        IN  (Len(q.fetched) > 0 /\ LastFetched(q).status = "failed") =>
               LET m == LastFetched(q).error_message
               IN  /\ q.state = "rejected"
                   /\ q.attempts = Len(q.fetched)
                   /\ q.resolved = <<>>
                   /\ q.rejected =
                        <<Error(IF m \in {None, Some("")} THEN PollFailedMessage ELSE m[1])>>
                   /\ ~TimedOut(q)

PollFailedWitness ==
    LET q == pollers["p1"]
    IN  /\ Len(q.fetched) = 3
        /\ q.maxAttempts = 3
        /\ LastFetched(q) = [status |-> "failed", error_message |-> None]
        /\ q.rejected = <<Error(PollFailedMessage)>>

\* C22: a poller never has more than one status fetch in flight, and never a
\* fetch in flight and a tick scheduled at once: a tick is scheduled only
\* when every fetch sent has returned and the last one was non-terminal.
OneFetchInFlight ==
    \A p \in PollerIds :
        LET q == pollers[p]
        IN  /\ q.inFlight \in {0, 1}
            /\ q.timers \in {0, 1}
            /\ q.inFlight + q.timers <= 1
            /\ q.inFlight = 1 => Len(q.fetched) = q.attempts - 1
            /\ q.timers = 1 =>
                  /\ Len(q.fetched) = q.attempts
                  /\ ~Terminal(LastFetched(q).status)
                  /\ q.attempts < q.maxAttempts

\* the third fetch of a poll is in flight, the two before it have returned
OneFetchInFlightWitness ==
    /\ pollers["p1"].inFlight = 1
    /\ pollers["p1"].attempts = 3
    /\ Len(pollers["p1"].fetched) = 2
    /\ pollers["p1"].timers = 0

Settlements(q) == Len(q.resolved) + Len(q.rejected)
FetchBound(q) == IF q.maxAttempts > 1 THEN q.maxAttempts ELSE 1

\* C30: a poll calls resolve or reject at most once in all; once it has,
\* no fetch is in flight and no tick is scheduled, so nothing more is fetched;
\* until then exactly one of the two is outstanding; it never sends more than
\* max(1, maxAttempts) fetches and has settled when that many have returned;
\* a fetch that throws rejects the poll with the thrown error, with no
\* further fetch.
SettlesOnce ==
    \A p \in PollerIds :
        LET q == pollers[p]
        IN  /\ Settlements(q) <= 1
            /\ Settlements(q) = 1 =>
                  /\ q.state \in {"resolved", "rejected"}
                  /\ q.inFlight = 0 /\ q.timers = 0
            /\ (Started(q) /\ Settlements(q) = 0) => q.inFlight + q.timers = 1
            /\ Started(q) => q.attempts <= FetchBound(q)
            /\ (Started(q) /\ Len(q.fetched) = FetchBound(q)) => Settlements(q) = 1
            /\ (Started(q) /\ q.inFlight = 0 /\ Len(q.fetched) < q.attempts) =>
                  /\ q.rejected \in {<<error>> : error \in StatusThrows}
                  /\ q.resolved = <<>>
                  /\ q.attempts = Len(q.fetched) + 1

\* the second fetch of a poll threw and the poll is rejected with that error
SettlesOnceWitness ==
    /\ pollers["p1"].attempts = 2
    /\ Len(pollers["p1"].fetched) = 1
    /\ pollers["p1"].rejected = <<NetworkError>>
    /\ pollers["p1"].maxAttempts = 3

\* the status a poll result carries, be it a DocumentStatus or a Document
StatusOf(r) == IF "status" \in DOMAIN r THEN r.status ELSE r.processing_status

\* C23 (as claimed): the polling contract of the real adapter, for a poll in
\* demo mode: the callback has been invoked for every status fetched, the
\* poll resolves only with a completed status, and it stops fetching only on
\* a terminal status or when maxAttempts statuses have been fetched.
PollContract ==
    \A p \in PollerIds :
        LET q == pollers[p]
        IN  /\ q.onStatusUpdate => Len(q.notified) = Len(q.fetched)
            /\ q.state = "resolved" => StatusOf(q.resolved[1]) = "completed"
            /\ (q.state \in {"resolved", "rejected"} /\ Len(q.fetched) = q.attempts) =>
                  \/ Terminal(StatusOf(LastFetched(q)))
                  \/ Len(q.fetched) >= q.maxAttempts

(* ------------------- claims on polling and the store ------------------- *)

Statuses(q) == [i \in 1..Len(q.fetched) |-> q.fetched[i].status]

\* C3 (as claimed): a document uploaded as pending whose poll observed
\* processing, processing, completed and resolved is stored as completed.
PollCommitsCompleted ==
    \A p \in PollerIds :
        LET q == pollers[p]
        IN  (/\ q.state = "resolved"
             /\ Statuses(q) = <<"processing", "processing", "completed">>
             /\ Len(store.documents) = 1
             /\ inflight = NoCalls
             /\ last.action = "uploadDocument" /\ last.ok
             /\ last.response.result.processing_status = "pending"
             /\ store.documents[1].document_id = q.documentId)
            => store.documents[1].processing_status = "completed"

\* a step of poller p: the call, an answer, a throw or the timer
PollStep(p) == pollers'[p] # pollers[p]

DocumentIdsDistinct ==
    \A i, j \in 1..Len(store.documents) :
        i # j => store.documents[i].document_id # store.documents[j].document_id

\* the step in which the action suspended in c resolves
Resolves(c) == inflight[c] # None /\ inflight'[c] = None

\* C10: the step in which uploadDocument succeeds appends exactly one
\* document, last, whose six fields are those of the adapter's mapped
\* response; the action returns that document and the documents stored before
\* are unchanged. With the store empty and the answer {document_id: "d1",
\* filename: "contract.pdf", processing_status: "pending"} the store then
\* holds one document, d1, pending.
UploadAppends ==
    [][\A c \in CallIds :
          (Resolves(c) /\ Pending(c, "uploadDocument") /\ last'.ok) =>
             LET r == last'.response.result
                 d == [document_id |-> r.document_id, filename |-> r.filename,
                       document_type |-> r.document_type, file_size |-> r.file_size,
                       upload_timestamp |-> r.upload_timestamp,
                       processing_status |-> r.processing_status]
             IN  /\ store'.documents = Append(store.documents, d)
                 /\ last'.returned = Some(d)
                 /\ (store.documents = <<>> /\ last'.response.raw = ScenarioRaw) =>
                       /\ Len(store'.documents) = 1
                       /\ store'.documents[1].document_id = "d1"
                       /\ store'.documents[1].processing_status = "pending"]_vars

\* a second upload has just succeeded: its document is last, behind the first
UploadAppendsWitness ==
    /\ last.action = "uploadDocument" /\ last.ok
    /\ last.before.action = "uploadDocument" /\ last.before.ok
    /\ Len(store.documents) = 2
    /\ Some(store.documents[2]) = last.returned
    /\ store.documents[1].document_id = "d1"
    /\ store.documents[2].document_id = "d2"

\* the first present value of a list of optional values, else the default
RECURSIVE FirstPresent(_, _)
FirstPresent(keys, default) ==
    IF keys = <<>> THEN default
    ELSE IF keys[1] # None THEN keys[1][1]
    ELSE FirstPresent(Tail(keys), default)

\* the type each file's extension stands for
ExtensionType(file) ==
    CASE file.name = "contract.pdf" -> "pdf"
      [] file.name = "Notes.DOC" -> "docx"
      [] file.name = "report.final.docx" -> "docx"
      [] file.name = "readme.md" -> "txt"

\* C24: the response the adapter hands to uploadDocument takes each field
\* from the first present key in priority order and else the default:
\* document_id, id, a token of the clock; file_size, size, the file's size;
\* upload_timestamp, timestamp, now; processing_status, status, "processed";
\* document_type, the type of the file's extension.
UploadNormalized ==
    [][\A c \in CallIds :
          (Resolves(c) /\ Pending(c, "uploadDocument") /\ last'.ok) =>
             LET raw == last'.response.raw
                 r == last'.response.result
                 file == inflight[c][1].file
             IN  /\ r.document_id
                      = FirstPresent(<<raw.document_id, raw.id>>, "170000000000" \o ToString(now))
                 /\ r.file_size = FirstPresent(<<raw.file_size, raw.size>>, file.size)
                 /\ r.upload_timestamp
                      = FirstPresent(<<raw.upload_timestamp, raw.timestamp>>, toISOString(now))
                 /\ r.processing_status
                      = FirstPresent(<<raw.processing_status, raw.status>>, "processed")
                 /\ r.document_type
                      = FirstPresent(<<raw.document_type>>, ExtensionType(file))]_vars

\* Notes.DOC was uploaded and answered with both id keys: the document is
\* d1, of type docx, with the file's size
UploadNormalizedWitness ==
    /\ last.action = "uploadDocument" /\ last.ok
    /\ last.arg = NotesDoc
    /\ last.response.raw.document_id = Some("d1") /\ last.response.raw.id = Some("d2")
    /\ last.returned # None
    /\ last.returned[1].document_id = "d1"
    /\ last.returned[1].document_type = "docx"
    /\ last.returned[1].file_size = 512

(* ---------------------- claims on the analysis ------------------------- *)

\* C7: right after a successful extractClauses the stored clauses are exactly
\* the list returned for that call; when the action resolved before it was a
\* successful extractClauses for another document A, none of A's clauses is
\* left in the store.
ClausesReplaced ==
    (last.action = "extractClauses" /\ last.ok) =>
        /\ store.clauses = last.response.clauses
        /\ (/\ last.before.action = "extractClauses"
            /\ last.before.ok
            /\ last.before.arg # last.arg)
           => Elements(store.clauses) \cap Elements(ClausesOf(last.before.arg).clauses) = {}

\* extractClauses for d1 (two clauses) and then for d2 (one clause) succeeded
ClausesReplacedWitness ==
    /\ last.action = "extractClauses" /\ last.ok /\ last.arg = "d2"
    /\ last.before.action = "extractClauses" /\ last.before.ok /\ last.before.arg = "d1"
    /\ store.clauses = ClausesOf("d2").clauses

\* the step in which c starts the given action
Starts(c, action) ==
    inflight[c] = None /\ inflight'[c] # None /\ inflight'[c][1].action = action

\* C8: neither the start of fetchAlerts nor the step in which it fails
\* changes summary, clauses or alerts, and error is non-null after the
\* failing step.
AlertsFailureIsolated ==
    [][\A c \in CallIds :
          /\ Starts(c, "fetchAlerts") =>
                /\ store'.summary = store.summary
                /\ store'.clauses = store.clauses
                /\ store'.alerts = store.alerts
          /\ (Resolves(c) /\ Pending(c, "fetchAlerts") /\ ~last'.ok) =>
                /\ store'.summary = store.summary
                /\ store'.clauses = store.clauses
                /\ store'.alerts = store.alerts
                /\ store'.error # None
                /\ ~store'.isLoading]_vars

\* fetchAlerts has just failed in a store that holds a summary, clauses and alerts
AlertsFailureIsolatedWitness ==
    /\ last.action = "fetchAlerts" /\ ~last.ok
    /\ store.summary # None
    /\ store.clauses # <<>>
    /\ store.alerts # <<>>
    /\ store.error # None

(* ------------------------ claims on the filter ------------------------- *)

\* one of the four accepted MIME types and at most 10 MiB
Accepted(file) ==
    /\ file.type \in {"application/pdf", "application/msword", "text/plain",
                      "application/vnd.openxmlformats-officedocument.wordprocessingml.document"}
    /\ file.size <= 10485760

\* C9: onDrop keeps a file exactly when its type is accepted and its size is
\* at most 10 MiB (10485760 bytes are kept, 10485761 are not), so a file that
\* fails either test is never among the selected files, and uploadFiles never
\* calls uploadDocument for it: no such upload is ever requested or in flight.
UploadFiltered ==
    /\ \A file \in DroppableFiles :
          validFiles(<<file>>) = IF Accepted(file) THEN <<file>> ELSE <<>>
    /\ \A file \in Elements(selectedFiles) \cup Elements(requested) : Accepted(file)
    /\ \A file \in offered :
          ~Accepted(file) =>
             /\ file \notin Elements(selectedFiles)
             /\ file \notin Elements(requested)
             /\ \A c \in CallIds :
                   Pending(c, "uploadDocument") => inflight[c][1].file # file

\* an oversized file and one of a wrong type were dropped and never uploaded;
\* the file of exactly 10 MiB dropped with them was
UploadFilteredWitness ==
    /\ {BigPdf, PhotoPng, ExactTxt} \subseteq offered
    /\ requested = <<ExactTxt>>
    /\ Len(store.documents) = 1

(* ----------------------- claims on the questions ----------------------- *)

\* C11: the step in which askQuestion succeeds appends exactly one entry,
\* last, with the asked question and the adapter's answer, leaves the earlier
\* entries as they were, returns the answer and ends with isLoading false;
\* the step in which it fails returns null and leaves qaSessions unchanged.
QuestionAppends ==
    [][\A c \in CallIds :
          (Resolves(c) /\ Pending(c, "askQuestion")) =>
             IF last'.ok
               THEN /\ Len(store'.qaSessions) = Len(store.qaSessions) + 1
                    /\ SubSeq(store'.qaSessions, 1, Len(store.qaSessions)) = store.qaSessions
                    /\ store'.qaSessions[Len(store'.qaSessions)].question
                          = inflight[c][1].question
                    /\ store'.qaSessions[Len(store'.qaSessions)].answer
                          = last'.response.answer
                    /\ last'.returned = Some(last'.response.answer)
                    /\ ~store'.isLoading
               ELSE /\ store'.qaSessions = store.qaSessions
                    /\ last'.returned = None]_vars

\* a second question has just been answered and a failed one lies before it
QuestionAppendsWitness ==
    /\ last.action = "askQuestion" /\ last.ok
    /\ last.before.action = "askQuestion" /\ ~last.before.ok
    /\ Len(store.qaSessions) = 2
    /\ store.qaSessions[1].question # store.qaSessions[2].question
    /\ Some(store.qaSessions[2].answer) = last.returned

(* ------------------- claims on the seven async actions ------------------ *)

Actions ==
    {"uploadDocument", "fetchDocuments", "generateSummary", "extractClauses",
     "askQuestion", "fetchAlerts", "deleteDocument"}

\* the step in which c starts one of the seven actions
Begins(c) == inflight[c] = None /\ inflight'[c] # None

\* the step in which the action suspended in c ends the given way
Succeeds(c) == Resolves(c) /\ last'.ok
Fails(c) == Resolves(c) /\ ~last'.ok

\* C12: the step that takes an action to its adapter call leaves isLoading
\* true and error null, and the step in which the action ends, either way,
\* leaves isLoading false.
LoadingPhases ==
    [][\A c \in CallIds :
          /\ Begins(c) => (inflight'[c][1].action \in Actions
                           /\ store'.isLoading /\ store'.error = None)
          /\ Resolves(c) => ~store'.isLoading]_vars

\* an action has just begun in a store that held an error, and before that
\* each of the two outcomes had been seen
LoadingPhasesWitness ==
    /\ inflight["c1"] # None
    /\ store.isLoading /\ store.error = None
    /\ last.action # "none" /\ ~last.ok
    /\ last.before.action # "none" /\ last.before.ok

\* C13 (as claimed): every action that succeeds leaves successMessage non-null.
SuccessMessageSet ==
    [][\A c \in CallIds : Succeeds(c) => store'.successMessage # None]_vars

\* the generic message of each action
DefaultMessage(action) ==
    CASE action = "uploadDocument" -> "Upload failed"
      [] action = "fetchDocuments" -> "Failed to fetch documents"
      [] action = "generateSummary" -> "Failed to generate summary"
      [] action = "extractClauses" -> "Failed to extract clauses"
      [] action = "askQuestion" -> "Failed to get answer"
      [] action = "fetchAlerts" -> "Failed to fetch alerts"
      [] action = "deleteDocument" -> "Failed to delete document"

\* C14 (as claimed): the error a failing action stores is the server's
\* message if there is one, else the caught error's own message if there is
\* one, else the action's generic message.
ErrorPriority ==
    [][\A c \in CallIds :
          Fails(c) =>
             LET error == last'.response
                 server == IF error.response # None THEN error.response[1].message ELSE None
             IN  store'.error =
                   Some(IF server \notin {None, Some("")} THEN server[1]
                        ELSE IF error.message # "" THEN error.message
                        ELSE DefaultMessage(last'.action))]_vars

Slices(s) ==
    <<s.documents, s.currentDocument, s.summary, s.clauses, s.alerts, s.qaSessions>>

\* C15: neither of the two steps of a failing action (the one up to the
\* adapter call, the one that catches) changes documents, currentDocument,
\* summary, clauses, alerts or qaSessions; successMessage is kept too, and
\* uploadProgress is written by uploadDocument only.
FailureFrame ==
    [][\A c \in CallIds :
          (Begins(c) \/ Fails(c)) =>
             /\ Slices(store') = Slices(store)
             /\ store'.successMessage = store.successMessage
             /\ store'.uploadProgress # store.uploadProgress =>
                   (Begins(c) /\ inflight'[c][1].action = "uploadDocument")]_vars

\* deleteDocument has just failed for the selected document, which is still
\* stored and selected, as are a summary, clauses, alerts and a Q&A entry
FailureFrameWitness ==
    /\ last.action = "deleteDocument" /\ ~last.ok
    /\ store.currentDocument # None
    /\ store.currentDocument[1].document_id = last.arg
    /\ \E i \in 1..Len(store.documents) : store.documents[i].document_id = last.arg
    /\ store.summary # None /\ store.clauses # <<>> /\ store.alerts # <<>>
    /\ store.qaSessions # <<>>
    /\ store.error # None

\* C25: the step in which an action fails leaves error non-null, and the
\* step in which an action succeeds leaves error as it was: a message stored
\* by a failure is not cleared by the success of an overlapping action.
FailureKept ==
    [][\A c \in CallIds :
          /\ Fails(c) => store'.error # None
          /\ Succeeds(c) => store'.error = store.error]_vars

\* two actions overlapped: the first to resolve failed, the second
\* succeeded, and the failure's message is still stored
FailureKeptWitness ==
    /\ inflight = NoCalls
    /\ last.action # "none" /\ last.ok
    /\ last.before.action # "none" /\ ~last.before.ok
    /\ store.error # None

\* C27 (as claimed): error and successMessage are never both non-null.
MessagesExclusive ==
    ~(store.error # None /\ store.successMessage # None)

\* C28 (as claimed): isLoading is true exactly when an action is in flight.
LoadingTracksInFlight ==
    store.isLoading <=> (\E c \in CallIds : inflight[c] # None)

(* ----------------- claims on deletion and the selection ----------------- *)

\* the documents of a list whose id is not documentId, in the list's order
RECURSIVE Without(_, _)
Without(documents, documentId) ==
    IF documents = <<>> THEN <<>>
    ELSE IF documents[1].document_id = documentId
      THEN Without(Tail(documents), documentId)
    ELSE <<documents[1]>> \o Without(Tail(documents), documentId)

\* C16: the step in which deleteDocument(id) succeeds leaves documents
\* without any document of that id and the others in their order; it leaves
\* currentDocument null if it had that id and as it was otherwise; summary,
\* clauses, alerts and qaSessions are unchanged.
DeleteRemoves ==
    [][\A c \in CallIds :
          (Succeeds(c) /\ Pending(c, "deleteDocument")) =>
             LET id == inflight[c][1].documentId
                 selected == store.currentDocument
             IN  /\ store'.documents = Without(store.documents, id)
                 /\ \A i \in 1..Len(store'.documents) : store'.documents[i].document_id # id
                 /\ (selected # None /\ selected[1].document_id = id)
                       => store'.currentDocument = None
                 /\ ~(selected # None /\ selected[1].document_id = id)
                       => store'.currentDocument = selected
                 /\ store'.summary = store.summary
                 /\ store'.clauses = store.clauses
                 /\ store'.alerts = store.alerts
                 /\ store'.qaSessions = store.qaSessions]_vars

\* d1 has just been deleted from the list d2, d1, d2: the two documents of
\* id d2 are left in their order, the selected d2 is still selected, and the
\* summary, clauses, alerts and Q&A entry are in place
DeleteRemovesWitness ==
    /\ last.action = "deleteDocument" /\ last.ok /\ last.arg = "d1"
    /\ store.documents = <<DocB, DocB2>>
    /\ store.currentDocument = Some(DocB)
    /\ store.summary # None /\ store.clauses # <<>> /\ store.alerts # <<>>
    /\ store.qaSessions # <<>>

\* C19: setCurrentDocument cancels nothing in flight, and the response of
\* generateSummary, extractClauses or fetchAlerts for a document is
\* committed whatever the selection is by then; so the store can hold the
\* summary (clauses, alerts) of A while B is selected.
StaleCommit ==
    [][/\ store'.currentDocument # store.currentDocument =>
             \A c \in CallIds : Pending(c, "generateSummary") \/ Pending(c, "extractClauses")
                                   \/ Pending(c, "fetchAlerts")
                                => inflight'[c] = inflight[c]
       /\ \A c \in CallIds :
             Succeeds(c) =>
                LET id == inflight[c][1].documentId
                IN  /\ Pending(c, "generateSummary") =>
                          store'.summary = Some(mapSummary(AnalysisOf(id), id).summary)
                    /\ Pending(c, "extractClauses") =>
                          store'.clauses = ClausesOf(id).clauses
                    /\ Pending(c, "fetchAlerts") =>
                          store'.alerts = AlertsOf(id).alerts]_vars

\* d2 is selected and the summary that has just been committed is d1's
StaleCommitWitness ==
    /\ last.action = "generateSummary" /\ last.ok /\ last.arg = "d1"
    /\ store.currentDocument = Some(DocB)
    /\ store.summary = Some(mapSummary(AnalysisOf("d1"), "d1").summary)
    /\ store.documents = <<DocB, DocA, DocB2>>

(* ------------------------ claims on the list --------------------------- *)

\* C26: no step of addDocument, updateDocument, removeDocument, a successful
\* upload or a successful deleteDocument reorders the list: a step that
\* lengthens it puts one document behind the others, a step that shortens it
\* takes the documents of one id out of it, and a step that keeps its length
\* keeps every document's place.
OrderPreserved ==
    [][LET old == store.documents
           new == store'.documents
       IN  /\ Len(new) > Len(old) =>
                /\ Len(new) = Len(old) + 1
                /\ SubSeq(new, 1, Len(old)) = old
           /\ Len(new) < Len(old) => \E id \in DocIds : new = Without(old, id)
           /\ Len(new) = Len(old) =>
                \A i \in 1..Len(old) : new[i].document_id = old[i].document_id]_vars

\* d1 was updated in the middle of the list d2, d1, d2 and is still there
OrderPreservedWitness ==
    /\ Len(store.documents) = 3
    /\ store.documents[1] = DocB
    /\ store.documents[2] = [DocA EXCEPT !.processing_status = "failed"]
    /\ store.documents[3] = DocB2

\* C29 (as claimed): currentDocument is null, or one of the stored
\* documents with all its fields.
CurrentDocumentStored ==
    \/ store.currentDocument = None
    \/ \E i \in 1..Len(store.documents) : store.documents[i] = store.currentDocument[1]

(* ----------------------- claims on the status -------------------------- *)

\* C17 (as claimed): every stored document's processing_status is one of
\* pending, processing, completed, failed, the documents made from an upload
\* response without processing_status and status included.
StatusInLifecycle ==
    \A i \in 1..Len(store.documents) :
        store.documents[i].processing_status \in {"pending", "processing", "completed", "failed"}

(* ----------------------- claims on the client -------------------------- *)

\* the branch of the failure notification an error belongs to
Branch(error) ==
    IF error.response # None
      THEN CASE error.response[1].status = 400 -> "400"
             [] error.response[1].status = 404 -> "404"
             [] error.response[1].status = 422 -> "422"
             [] error.response[1].status = 500 -> "500"
             [] error.response[1].status = 503 -> "503"
             [] OTHER -> "other status"
    ELSE IF error.request THEN "no response" ELSE "not sent"

\* the notifications of each branch
BranchToasts(branch) ==
    CASE branch = "400" -> {"Bad Request: Request failed", "Bad Request: file is empty"}
      [] branch = "404" -> {"Resource not found"}
      [] branch = "422" -> {"Validation Error: Request failed", "Validation Error: file is empty"}
      [] branch = "500" -> {"Server error. Please try again later."}
      [] branch = "503" -> {"Service unavailable. Please try again later."}
      [] branch = "other status" -> {"Error: Request failed", "Error: file is empty"}
      [] branch = "no response" -> {"Network error. Please check your connection."}
      [] branch = "not sent" -> {"An unexpected error occurred."}

\* C18: every call through the client sends its request once; it resolves
\* with the response body and no notification, or rejects with the very
\* error axios produced after exactly one notification, that of the error's
\* branch; a pending call has raised none.
OneNotification ==
    \A i \in 1..Len(client) :
        LET call == client[i]
        IN  /\ call.sent = 1
            /\ call.state = "pending" =>
                  call.toasts = <<>> /\ call.resolved = None /\ call.rejected = None
            /\ call.state = "resolved" =>
                  /\ call.toasts = <<>>
                  /\ call.resolved # None /\ call.resolved[1] \in ResponseBodies
                  /\ call.rejected = None
            /\ call.state = "rejected" =>
                  /\ call.rejected = call.failure /\ call.rejected # None
                  /\ call.resolved = None
                  /\ Len(call.toasts) = 1
                  /\ call.toasts[1] \in BranchToasts(Branch(call.failure[1]))

\* a call answered 400 with a message in the body and one that never got a
\* response have both been rejected
OneNotificationWitness ==
    /\ Len(client) = 2
    /\ client[1].state = "rejected" /\ client[2].state = "rejected"
    /\ client[1].toasts = <<"Bad Request: file is empty">>
    /\ client[2].failure = Some(NoResponseError)

(* ------------------------ claims on the races -------------------------- *)

\* the two actions started together have both resolved, and both succeeded
BothSucceeded ==
    /\ inflight = NoCalls
    /\ last.action \in {"extractClauses", "fetchAlerts"} /\ last.ok
    /\ last.before.action \in {"extractClauses", "fetchAlerts"} /\ last.before.ok

\* C20: when extractClauses and fetchAlerts were started together for a
\* document and both succeeded, clauses is the extractClauses result and
\* alerts is the getAlerts result for it, whichever response came first; and
\* the step that commits the one leaves the other's slice alone.
RaceOrderFree ==
    [][/\ BothSucceeded' =>
             /\ last'.before.action # last'.action /\ last'.before.arg = last'.arg
             /\ store'.clauses = ClausesOf(last'.arg).clauses
             /\ store'.alerts = AlertsOf(last'.arg).alerts
       /\ \A c \in CallIds :
             /\ (Succeeds(c) /\ Pending(c, "extractClauses")) =>
                   /\ store'.clauses = ClausesOf(inflight[c][1].documentId).clauses
                   /\ store'.alerts = store.alerts
             /\ (Succeeds(c) /\ Pending(c, "fetchAlerts")) =>
                   /\ store'.alerts = AlertsOf(inflight[c][1].documentId).alerts
                   /\ store'.clauses = store.clauses]_vars

\* the alerts arrived first, the clauses second, for d2, after a first
\* pair for d1 in the other order
RaceOrderFreeWitness ==
    /\ BothSucceeded
    /\ last.action = "extractClauses" /\ last.before.action = "fetchAlerts"
    /\ last.arg = "d2"
    /\ store.clauses = ClausesOf("d2").clauses
    /\ store.alerts = AlertsOf("d2").alerts

\* the slice an analysis action writes, and what the action stores for a document
SliceOf(s, action) ==
    CASE action = "generateSummary" -> s.summary
      [] action = "extractClauses" -> s.clauses
      [] action = "fetchAlerts" -> s.alerts

StoredFor(action, id) ==
    CASE action = "generateSummary" -> Some(mapSummary(AnalysisOf(id), id).summary)
      [] action = "extractClauses" -> ClausesOf(id).clauses
      [] action = "fetchAlerts" -> AlertsOf(id).alerts

\* C21: when the same action was started for d1 and then for d2 and both
\* calls succeeded, the slice holds the result of the response that arrived
\* last, be it the older call's; every successful response is committed, the
\* other call pending or not, none is discarded.
LastWriterWins ==
    [][/\ (/\ inflight' = NoCalls
           /\ last'.action \in AnalysisActions /\ last'.ok
           /\ last'.before.action = last'.action /\ last'.before.ok)
          => SliceOf(store', last'.action) = StoredFor(last'.action, last'.arg)
       /\ \A c \in CallIds :
             (Succeeds(c) /\ inflight[c][1].action \in AnalysisActions) =>
                SliceOf(store', inflight[c][1].action)
                   = StoredFor(inflight[c][1].action, inflight[c][1].documentId)]_vars

\* extractClauses for d1 was started first and answered last: the clauses
\* are d1's, those of the younger call for d2 are gone
LastWriterWinsWitness ==
    /\ inflight = NoCalls
    /\ last.action = "extractClauses" /\ last.ok /\ last.arg = "d1"
    /\ last.before.action = "extractClauses" /\ last.before.ok /\ last.before.arg = "d2"
    /\ store.clauses = ClausesOf("d1").clauses

====
